---------------------------- MODULE Spec2Model ----------------------------
(***************************************************************************)
(* Model of the Disease Prediction API (src/main.py): the lifespan startup *)
(* that loads the classifier and the metadata into process-wide globals,   *)
(* and the six request handlers that read them.                            *)
(*                                                                         *)
(* Representation                                                          *)
(*  - a Python str is a sequence of one-character strings, so that lower() *)
(*    and strip() are computed character by character;                    *)
(*  - None is the empty tuple <<>> and a loaded value x is <<x>>;          *)
(*  - a float is a fixed-point integer in 0..Scale (Scale stands for 1.0); *)
(*  - the trained classifier is opaque to the source: the model file is a  *)
(*    dense layer (one bias per class, a fixed kernel) plus the set of     *)
(*    input vectors on which the inference runtime raises.  The file is    *)
(*    chosen in Init and never changes, so inference is a function of the  *)
(*    input vector;                                                        *)
(*  - the model file and the metadata file are produced together by        *)
(*    training: the classifier has one input per symptom column and one    *)
(*    output per disease label.                                            *)
(*  - handlers are `async def` without any await: each one runs to its     *)
(*    response without interleaving, hence one action per handler.         *)
(***************************************************************************)
EXTENDS Integers, Sequences, FiniteSets, TLC

VARIABLES
    phase,            \* "init" | "serving" | "failed" | "stopped"
    fs,               \* the files at MODEL_PATH and METADATA_PATH
    argsort_ties,     \* how this build of np.argsort orders equal keys
    model,            \* global model            (main.py:24)
    symptom_columns,  \* global symptom_columns  (main.py:25)
    disease_labels,   \* global disease_labels   (main.py:26)
    req,              \* the request handled last
    resp,             \* its response
    calls             \* the calls of preprocess_symptoms / model.predict it made

vars == <<phase, fs, argsort_ties, model, symptom_columns, disease_labels,
          req, resp, calls>>

(***************************************************************************)
(* Bounds                                                                  *)
(***************************************************************************)
MaxSymptoms == 2      \* longest symptoms list sent to /predict
MaxBatch == 2         \* longest list sent to /predict/batch
Scale == 1000         \* fixed-point resolution of a probability

TopK == 3

None == << >>
Some(x) == <<x>>
IsNone(o) == o = << >>
Val(o) == o[1]

\* a function on 1..n as the tuple of its values
Tup(f) == f \o << >>

(***************************************************************************)
(* Strings                                                                 *)
(***************************************************************************)
LowerChar(c) ==
    CASE c = "A" -> "a"
      [] c = "B" -> "b"
      [] c = "X" -> "x"
      [] OTHER -> c

IsSpace(c) == c \in {" ", "\t", "\n"}

\* str.lower()
lower(s) == Tup([k \in 1..Len(s) |-> LowerChar(s[k])])

RECURSIVE lstrip(_)
lstrip(s) == IF s # << >> /\ IsSpace(Head(s)) THEN lstrip(Tail(s)) ELSE s

RECURSIVE rstrip(_)
rstrip(s) ==
    IF s # << >> /\ IsSpace(s[Len(s)]) THEN rstrip(SubSeq(s, 1, Len(s) - 1)) ELSE s

\* str.strip()
strip(s) == rstrip(lstrip(s))

\* a normalisation that forgets strip()
normalize_lower_only(s) == lower(s)

\* s.lower().strip()
normalize(s) == strip(lower(s))

(***************************************************************************)
(* preprocess_symptoms                                                     *)
(***************************************************************************)
\* preprocess_symptoms that stops at the first matching column
preprocess_symptoms_first(symptoms, columns) ==
    LET normalized_symptoms == [k \in 1..Len(symptoms) |-> normalize(symptoms[k])]
        hit(idx) == \E k \in 1..Len(symptoms) :
                        normalized_symptoms[k] = normalize(columns[idx])
    IN  [idx \in 1..Len(columns) |->
            IF hit(idx) /\ \A j \in 1..(idx - 1) : ~hit(j) THEN 1 ELSE 0]

preprocess_symptoms(symptoms, columns) ==
    LET normalized_symptoms ==
            Tup([k \in 1..Len(symptoms) |-> normalize(symptoms[k])])
    IN  Tup([idx \in 1..Len(columns) |->
            LET normalized_col == normalize(columns[idx])
            IN  IF \E k \in 1..Len(normalized_symptoms) :
                       normalized_symptoms[k] = normalized_col
                THEN 1 ELSE 0])

(***************************************************************************)
(* The classifier, softmax and the ranking                                 *)
(***************************************************************************)
RECURSIVE SumSeq(_)
SumSeq(s) == IF s = << >> THEN 0 ELSE Head(s) + SumSeq(Tail(s))

RECURSIVE MinSeq(_)
MinSeq(s) ==
    IF Len(s) = 1 THEN s[1]
    ELSE LET m == MinSeq(Tail(s)) IN IF Head(s) < m THEN Head(s) ELSE m

Pow2(n) == 2 ^ n

\* the dense layer's kernel: symptom i votes for class ((i-1) mod M) + 1
Kernel(i, j, M) == IF ((i - 1) % M) + 1 = j THEN 1 ELSE 0

\* model.predict(input_vector, verbose=0): the logits, one per class
model_predict(m, v) ==
    Tup([j \in 1..Len(m.bias) |->
        m.bias[j] + SumSeq([i \in 1..Len(v) |-> v[i] * Kernel(i, j, Len(m.bias))])])

\* whether model.predict raises on this input
model_raises(m, v) == v \in m.failOn

\* tf.nn.softmax(logits).numpy()[0], to base 2 and in fixed point:
\* p_j = 2^(l_j - c) / SUM_k 2^(l_k - c), rounded down to a multiple of 1/Scale
softmax(logits) ==
    LET c == MinSeq(logits)
        e == Tup([j \in 1..Len(logits) |-> Pow2(logits[j] - c)])
        total == SumSeq(e)
    IN  Tup([j \in 1..Len(logits) |-> (Scale * e[j]) \div total])

\* i comes before j in np.argsort(p): ascending keys; the order of equal keys
\* is not specified by the default kind, it is fixed for one build
Before(p, i, j, ties) ==
    \/ p[i] < p[j]
    \/ /\ p[i] = p[j]
       /\ IF ties = "stable" THEN i < j ELSE i > j

\* np.argsort(p): the indices of p in ascending order of p
argsort(p, ties) ==
    LET rank(i) == Cardinality({j \in 1..Len(p) : j # i /\ Before(p, j, i, ties)}) + 1
    IN  Tup([r \in 1..Len(p) |-> CHOOSE i \in 1..Len(p) : rank(i) = r])

\* a[-3:]
last3(a) == SubSeq(a, IF Len(a) > TopK THEN Len(a) - TopK + 1 ELSE 1, Len(a))

\* a[::-1]
reversed(a) == Tup([k \in 1..Len(a) |-> a[Len(a) - k + 1]])

\* the ranking without the [::-1]
top_3_indices_ascending(p, ties) == last3(argsort(p, ties))

\* np.argsort(probabilities)[-3:][::-1]
top_3_indices(p, ties) == reversed(last3(argsort(p, ties)))


(***************************************************************************)
(* The files on disk                                                       *)
(***************************************************************************)
\* the strings a client sends: recognised names in several spellings, and
\* strings that match no column (an unknown name, inner whitespace, "")
InputStrings ==
    { <<"a">>, <<" ", "A">>, <<"B", "\t">>, <<"x">>, <<"a", " ", "b">>, << >> }

\* the symptom lists a batch is made of
BatchItems ==
    { << >>, << <<"a">> >>, << <<" ", "A">>, <<"B">> >>, << <<"x">> >> }

\* metadata['symptom_columns']: plain names; names that need normalising,
\* two of them equal once normalised
SchemaChoices ==
    { << <<"a">>, <<"b">> >>,
      << <<" ", "A">>, <<"b">>, <<"a">> >> }

\* metadata['disease_labels']
LabelChoices ==
    { <<"d1", "d2">>, <<"d1", "d2", "d3">>, <<"d1", "d2", "d3", "d4">> }

\* the biases of the output layer, one per class
BiasChoices(M) == [1..M -> {0, 1}]

\* the input vectors on which the inference runtime raises
FailChoices(N) == { {}, {[i \in 1..N |-> 1]} }

Defects ==
    { "none", "model_missing", "model_corrupt", "metadata_missing",
      "metadata_malformed", "no_symptom_columns", "null_symptom_columns",
      "no_disease_labels", "null_disease_labels" }

\* a JSON member: absent from the object, null, or a list
Member(defect, absent, null, list) ==
    [kind |-> IF defect = absent THEN "absent"
              ELSE IF defect = null THEN "null" ELSE "list",
     val  |-> list]

Files(defect, schema, labels, bias, failOn) ==
    [model |->
        [state  |-> CASE defect = "model_missing" -> "missing"
                      [] defect = "model_corrupt" -> "corrupt"
                      [] OTHER -> "ok",
         bias   |-> bias,
         failOn |-> failOn],
     metadata |->
        [state |-> CASE defect = "metadata_missing" -> "missing"
                     [] defect = "metadata_malformed" -> "malformed"
                     [] OTHER -> "ok",
         symptom_columns |->
            Member(defect, "no_symptom_columns", "null_symptom_columns", schema),
         disease_labels |->
            Member(defect, "no_disease_labels", "null_disease_labels", labels)]]

(***************************************************************************)
(* lifespan: the startup half                                              *)
(***************************************************************************)
Loaded(m, s, d, raised) ==
    [model |-> m, symptom_columns |-> s, disease_labels |-> d, raised |-> raised]

\* a startup that logs the error and goes on to serve
lifespan_swallow(files) ==
    LET md == files.metadata IN
    IF files.model.state # "ok" THEN Loaded(None, None, None, FALSE)
    ELSE IF md.state # "ok" THEN Loaded(Some(files.model), None, None, FALSE)
    ELSE Loaded(Some(files.model),
                IF md.symptom_columns.kind = "list"
                    THEN Some(md.symptom_columns.val) ELSE None,
                IF md.symptom_columns.kind = "list" /\ md.disease_labels.kind = "list"
                    THEN Some(md.disease_labels.val) ELSE None,
                FALSE)

\* the globals after the try block of lifespan, and whether it raised
lifespan(files) ==
    LET md == files.metadata IN
    IF files.model.state = "missing"          \* os.path.exists(MODEL_PATH)
        THEN Loaded(None, None, None, TRUE)
    ELSE IF files.model.state = "corrupt"     \* load_model raises
        THEN Loaded(None, None, None, TRUE)
    ELSE IF md.state = "missing"              \* os.path.exists(METADATA_PATH)
        THEN Loaded(Some(files.model), None, None, TRUE)
    ELSE IF md.state = "malformed"            \* json.load raises
        THEN Loaded(Some(files.model), None, None, TRUE)
    ELSE IF md.symptom_columns.kind = "absent"   \* KeyError
        THEN Loaded(Some(files.model), None, None, TRUE)
    ELSE IF md.symptom_columns.kind = "null"     \* len(None) raises
        THEN Loaded(Some(files.model), None, None, TRUE)
    ELSE IF md.disease_labels.kind = "absent"    \* KeyError
        THEN Loaded(Some(files.model), Some(md.symptom_columns.val), None, TRUE)
    ELSE IF md.disease_labels.kind = "null"      \* len(None) raises
        THEN Loaded(Some(files.model), Some(md.symptom_columns.val), None, TRUE)
    ELSE Loaded(Some(files.model), Some(md.symptom_columns.val),
                Some(md.disease_labels.val), FALSE)

(***************************************************************************)
(* Responses                                                               *)
(***************************************************************************)
HTTPException(status_code, detail) ==
    [status |-> status_code, body |-> [detail |-> detail]]

Ok(body) == [status |-> 200, body |-> body]

Call(fn, item, symptoms, vector) ==
    [fn |-> fn, item |-> item, symptoms |-> symptoms, vector |-> vector]

Outcome(response, log) == [resp |-> response, calls |-> log]

\* GET /
root ==
    Ok([status |-> "healthy", model_loaded |-> ~IsNone(model)])

\* GET /health
health_check ==
    Ok([status |-> IF ~IsNone(model) THEN "healthy" ELSE "unhealthy",
        model_loaded |-> ~IsNone(model),
        symptoms_loaded |-> ~IsNone(symptom_columns),
        diseases_loaded |-> ~IsNone(disease_labels),
        total_symptoms |->
            IF ~IsNone(symptom_columns) /\ Val(symptom_columns) # << >>
                THEN Len(Val(symptom_columns)) ELSE 0,
        total_diseases |->
            IF ~IsNone(disease_labels) /\ Val(disease_labels) # << >>
                THEN Len(Val(disease_labels)) ELSE 0])

\* GET /symptoms reporting one symptom too few
get_symptoms_off_by_one ==
    IF IsNone(symptom_columns) THEN HTTPException(500, "Symptom data not loaded")
    ELSE Ok([symptoms |-> Val(symptom_columns),
             total |-> Len(Val(symptom_columns)) - 1])

\* GET /symptoms
get_symptoms ==
    IF IsNone(symptom_columns) THEN HTTPException(500, "Symptom data not loaded")
    ELSE Ok([symptoms |-> Val(symptom_columns), total |-> Len(Val(symptom_columns))])

\* GET /diseases
get_diseases ==
    IF IsNone(disease_labels) THEN HTTPException(500, "Disease data not loaded")
    ELSE Ok([diseases |-> Val(disease_labels), total |-> Len(Val(disease_labels))])

(***************************************************************************)
(* POST /predict                                                           *)
(***************************************************************************)
\* a ranking that reports the last of the ranked indices as the top prediction
ranked_last(probabilities, labels, top) ==
    [predicted_disease |-> labels[top[Len(top)]],
     confidence        |-> probabilities[top[Len(top)]],
     top_3_predictions |->
        [k \in 1..Len(top) |->
            [disease |-> labels[top[k]], confidence |-> probabilities[top[k]]]]]

\* lines 192-214 for one probability vector: the ranked predictions and the
\* top one (the batch loop builds the same three fields, lines 240-254)
ranked(probabilities, labels, top) ==
    LET top_3_predictions ==
            [k \in 1..Len(top) |->
                [disease |-> labels[top[k]], confidence |-> probabilities[top[k]]]]
    IN  [predicted_disease |-> labels[top[1]],
         confidence        |-> probabilities[top[1]],
         top_3_predictions |-> top_3_predictions]

\* /predict that rejects a request naming an unknown symptom
predict_disease_strict(symptoms) ==
    IF IsNone(model) THEN Outcome(HTTPException(500, "Model not loaded"), << >>)
    ELSE IF symptoms = << >>
        THEN Outcome(HTTPException(400, "No symptoms provided"), << >>)
    ELSE IF IsNone(symptom_columns) \/ IsNone(disease_labels)
        THEN Outcome(HTTPException(500, "Prediction error"), << >>)
    ELSE IF \E k \in 1..Len(symptoms) : \A i \in 1..Len(Val(symptom_columns)) :
                normalize(symptoms[k]) # normalize(Val(symptom_columns)[i])
        THEN Outcome(HTTPException(400, "Unknown symptom"), << >>)
    ELSE
        LET input_vector == preprocess_symptoms(symptoms, Val(symptom_columns))
            log == << Call("preprocess_symptoms", 1, symptoms, input_vector),
                      Call("model.predict", 1, symptoms, input_vector) >>
        IN  IF model_raises(Val(model), input_vector)
            THEN Outcome(HTTPException(500, "Prediction error"), log)
            ELSE
                LET probabilities == softmax(model_predict(Val(model), input_vector))
                    top == top_3_indices(probabilities, argsort_ties)
                IN  Outcome(Ok(ranked(probabilities, Val(disease_labels), top)), log)

\* /predict without the check for an empty list, as the batch loop runs an item
predict_disease_unchecked(symptoms) ==
    IF IsNone(model) THEN Outcome(HTTPException(500, "Model not loaded"), << >>)
    ELSE IF IsNone(symptom_columns) \/ IsNone(disease_labels)
        THEN Outcome(HTTPException(500, "Prediction error"), << >>)
    ELSE
        LET input_vector == preprocess_symptoms(symptoms, Val(symptom_columns))
            log == << Call("preprocess_symptoms", 1, symptoms, input_vector),
                      Call("model.predict", 1, symptoms, input_vector) >>
        IN  IF model_raises(Val(model), input_vector)
            THEN Outcome(HTTPException(500, "Prediction error"), log)
            ELSE
                LET probabilities == softmax(model_predict(Val(model), input_vector))
                    top == top_3_indices(probabilities, argsort_ties)
                IN  Outcome(Ok(ranked(probabilities, Val(disease_labels), top)), log)

\* the response of POST /predict and the calls it makes
predict_disease(symptoms) ==
    IF IsNone(model) THEN Outcome(HTTPException(500, "Model not loaded"), << >>)
    ELSE IF symptoms = << >>                   \* not request.symptoms
        THEN Outcome(HTTPException(400, "No symptoms provided"), << >>)
    ELSE IF IsNone(symptom_columns) \/ IsNone(disease_labels)
        \* len(None) raises inside the try block
        THEN Outcome(HTTPException(500, "Prediction error"), << >>)
    ELSE
        LET input_vector == preprocess_symptoms(symptoms, Val(symptom_columns))
            log == << Call("preprocess_symptoms", 1, symptoms, input_vector),
                      Call("model.predict", 1, symptoms, input_vector) >>
        IN  IF model_raises(Val(model), input_vector)
            THEN Outcome(HTTPException(500, "Prediction error"), log)
            ELSE
                LET logits == model_predict(Val(model), input_vector)
                    probabilities == softmax(logits)
                    top == top_3_indices(probabilities, argsort_ties)
                IN  Outcome(Ok(ranked(probabilities, Val(disease_labels), top)), log)

(***************************************************************************)
(* POST /predict/batch                                                     *)
(***************************************************************************)
\* one result of the batch (lines 249-254)
batch_result(symptoms, probabilities, labels, top) ==
    [symptoms          |-> symptoms,
     predicted_disease |-> labels[top[1]],
     confidence        |-> probabilities[top[1]],
     top_3_predictions |->
        [k \in 1..Len(top) |->
            [disease |-> labels[top[k]], confidence |-> probabilities[top[k]]]]]

\* a loop that skips an item whose inference raises and goes on
RECURSIVE batch_loop_isolated(_, _, _, _)
batch_loop_isolated(symptoms_list, i, results, log) ==
    IF i > Len(symptoms_list) THEN Outcome(Ok([predictions |-> results]), log)
    ELSE
        LET symptoms == symptoms_list[i]
            input_vector == preprocess_symptoms(symptoms, Val(symptom_columns))
            log2 == log \o << Call("preprocess_symptoms", i, symptoms, input_vector),
                              Call("model.predict", i, symptoms, input_vector) >>
        IN  IF model_raises(Val(model), input_vector)
            THEN batch_loop_isolated(symptoms_list, i + 1, results, log2)
            ELSE
                LET probabilities == softmax(model_predict(Val(model), input_vector))
                    top == top_3_indices(probabilities, argsort_ties)
                IN  batch_loop_isolated(symptoms_list, i + 1,
                        Append(results, batch_result(symptoms, probabilities,
                                                     Val(disease_labels), top)),
                        log2)

\* a loop that puts each result in front of the earlier ones
RECURSIVE batch_loop_prepend(_, _, _, _)
batch_loop_prepend(symptoms_list, i, results, log) ==
    IF i > Len(symptoms_list) THEN Outcome(Ok([predictions |-> results]), log)
    ELSE
        LET symptoms == symptoms_list[i]
            input_vector == preprocess_symptoms(symptoms, Val(symptom_columns))
            log2 == log \o << Call("preprocess_symptoms", i, symptoms, input_vector),
                              Call("model.predict", i, symptoms, input_vector) >>
        IN  IF model_raises(Val(model), input_vector)
            THEN Outcome(HTTPException(500, "Batch prediction error"), log2)
            ELSE
                LET probabilities == softmax(model_predict(Val(model), input_vector))
                    top == top_3_indices(probabilities, argsort_ties)
                IN  batch_loop_prepend(symptoms_list, i + 1,
                        << batch_result(symptoms, probabilities,
                                        Val(disease_labels), top) >> \o results,
                        log2)

\* the for loop of predict_disease_batch from item i on, inside its try block
RECURSIVE batch_loop(_, _, _, _)
batch_loop(symptoms_list, i, results, log) ==
    IF i > Len(symptoms_list) THEN Outcome(Ok([predictions |-> results]), log)
    ELSE
        LET symptoms == symptoms_list[i]
            input_vector == preprocess_symptoms(symptoms, Val(symptom_columns))
            log2 == log \o << Call("preprocess_symptoms", i, symptoms, input_vector),
                              Call("model.predict", i, symptoms, input_vector) >>
        IN  IF model_raises(Val(model), input_vector)
            \* the exception leaves the loop: results is dropped
            THEN Outcome(HTTPException(500, "Batch prediction error"), log2)
            ELSE
                LET logits == model_predict(Val(model), input_vector)
                    probabilities == softmax(logits)
                    top == top_3_indices(probabilities, argsort_ties)
                IN  batch_loop(symptoms_list, i + 1,
                        Append(results, batch_result(symptoms, probabilities,
                                                     Val(disease_labels), top)),
                        log2)

\* the response of POST /predict/batch and the calls it makes
predict_disease_batch(symptoms_list) ==
    IF IsNone(model) THEN Outcome(HTTPException(500, "Model not loaded"), << >>)
    ELSE IF symptoms_list # << >> /\ (IsNone(symptom_columns) \/ IsNone(disease_labels))
        THEN Outcome(HTTPException(500, "Batch prediction error"), << >>)
    ELSE batch_loop(symptoms_list, 1, << >>, << >>)

(***************************************************************************)
(* The state machine                                                       *)
(***************************************************************************)
RECURSIVE SeqsUpTo(_, _)
SeqsUpTo(S, n) ==
    IF n = 0 THEN { << >> }
    ELSE LET shorter == SeqsUpTo(S, n - 1)
         IN  shorter \cup { Append(q, x) : q \in shorter, x \in S }

Request(endpoint, symptoms, symptoms_list) ==
    [endpoint |-> endpoint, symptoms |-> symptoms, symptoms_list |-> symptoms_list]

NoRequest == Request("", << >>, << >>)
NoResponse == [status |-> 0, body |-> [detail |-> ""]]

Init ==
    /\ phase = "init"
    /\ \E defect \in Defects, schema \in SchemaChoices, labels \in LabelChoices :
         \E bias \in BiasChoices(Len(labels)),
            failOn \in FailChoices(Len(schema)) :
                fs = Files(defect, schema, labels, bias, failOn)
    /\ argsort_ties \in {"stable", "reverse"}
    /\ model = None
    /\ symptom_columns = None
    /\ disease_labels = None
    /\ req = NoRequest
    /\ resp = NoResponse
    /\ calls = << >>

\* lifespan up to its yield; the server serves only if it did not raise
Startup ==
    /\ phase = "init"
    /\ LET l == lifespan(fs)
       IN  /\ model' = l.model
           /\ symptom_columns' = l.symptom_columns
           /\ disease_labels' = l.disease_labels
           /\ phase' = IF l.raised THEN "failed" ELSE "serving"
    /\ UNCHANGED <<fs, argsort_ties, req, resp, calls>>

\* the event loop runs one handler at a time, from the request to its response
Handle(request, outcome) ==
    /\ phase = "serving"
    /\ req = NoRequest
    /\ req' = request
    /\ resp' = outcome.resp
    /\ calls' = outcome.calls
    /\ UNCHANGED <<phase, fs, argsort_ties, model, symptom_columns, disease_labels>>

\* the response is sent; what the request held is discarded
Reply ==
    /\ req # NoRequest
    /\ phase = "serving"
    /\ req' = NoRequest
    /\ resp' = NoResponse
    /\ calls' = << >>
    /\ UNCHANGED <<phase, fs, argsort_ties, model, symptom_columns, disease_labels>>

Root == Handle(Request("/", << >>, << >>), Outcome(root, << >>))

HealthCheck == Handle(Request("/health", << >>, << >>), Outcome(health_check, << >>))

GetSymptoms == Handle(Request("/symptoms", << >>, << >>), Outcome(get_symptoms, << >>))

GetDiseases == Handle(Request("/diseases", << >>, << >>), Outcome(get_diseases, << >>))

\* the bodies sent to /predict and to /predict/batch
PredictInputs == SeqsUpTo(InputStrings, MaxSymptoms)
BatchInputs == SeqsUpTo(BatchItems, MaxBatch)

PredictDisease ==
    \E symptoms \in PredictInputs :
        LET o == predict_disease(symptoms)
        IN  Handle(Request("/predict", symptoms, << >>), o)

PredictDiseaseBatch ==
    \E symptoms_list \in BatchInputs :
        LET o == predict_disease_batch(symptoms_list)
        IN  Handle(Request("/predict/batch", << >>, symptoms_list), o)

\* lifespan after its yield: prints "Shutting down..."
Shutdown ==
    /\ phase = "serving"
    /\ req = NoRequest
    /\ phase' = "stopped"
    /\ UNCHANGED <<fs, argsort_ties, model, symptom_columns, disease_labels,
                   req, resp, calls>>

Next ==
    \/ Startup
    \/ Root
    \/ HealthCheck
    \/ GetSymptoms
    \/ GetDiseases
    \/ PredictDisease
    \/ PredictDiseaseBatch
    \/ Reply
    \/ Shutdown

Spec == Init /\ [][Next]_vars

(***************************************************************************)
(* Properties                                                              *)
(***************************************************************************)
Range(q) == { q[k] : k \in 1..Len(q) }

Min2(a, b) == IF a < b THEN a ELSE b

IsPredict == req.endpoint = "/predict"
IsBatch == req.endpoint = "/predict/batch"

\* the predictions of a successful response: the body of /predict, or the
\* items of /predict/batch
Predictions ==
    IF IsPredict /\ resp.status = 200 THEN { resp.body }
    ELSE IF IsBatch /\ resp.status = 200 THEN Range(resp.body.predictions)
    ELSE { }

\* u matches no column of the schema once both are lowercased and trimmed
Unrecognized(u) ==
    \A i \in 1..Len(Val(symptom_columns)) :
        normalize(u) # normalize(Val(symptom_columns)[i])

\* L with every occurrence of u removed
Without(L, u) == SelectSeq(L, LAMBDA s : s # u)

\* L with its i-th element replaced by t
Replace(L, i, t) == [L EXCEPT ![i] = t]

\* str.upper()
UpperChar(c) ==
    CASE c = "a" -> "A"
      [] c = "b" -> "B"
      [] c = "x" -> "X"
      [] OTHER -> c

upper(s) == Tup([k \in 1..Len(s) |-> UpperChar(s[k])])

\* strings that differ from s only in letter case and surrounding whitespace
Variants(s) ==
    LET bare == rstrip(lstrip(s))
    IN  { upper(s), lower(s), bare, upper(bare),
          <<" ">> \o s, s \o <<"\t">>, <<"\n", " ">> \o upper(s) \o <<" ">> }

\* the calls of preprocess_symptoms made for the request
Vectorized == { c \in Range(calls) : c.fn = "preprocess_symptoms" }

\* the calls of the classifier made for the request
Classified == { c \in Range(calls) : c.fn = "model.predict" }

\* C1: a /predict request with an empty symptoms list, handled while the
\* model is loaded, is answered 400 and calls neither preprocess_symptoms
\* nor model.predict.
C1_EmptyListRejected ==
    (IsPredict /\ ~IsNone(model) /\ req.symptoms = << >>)
        => /\ resp.status = 400
           /\ Vectorized = { }
           /\ Classified = { }

C1_Witness ==
    /\ IsPredict
    /\ ~IsNone(model)
    /\ req.symptoms = << >>
    /\ resp.status = 400

\* C2 as stated: removing every occurrence of an unrecognized string u from
\* the symptoms list of a /predict request leaves the response unchanged,
\* also when nothing but unrecognized strings was sent.
C2_UnrecognizedIrrelevant ==
    IsPredict =>
        \A u \in Range(req.symptoms) :
            Unrecognized(u) => predict_disease(Without(req.symptoms, u)).resp = resp

\* C2 amended: removing every occurrence of an unrecognized string u from the
\* symptoms list of a /predict request leaves the response unchanged,
\* provided the list that remains is not empty.
C2_UnrecognizedIrrelevantIfSomeRemain ==
    IsPredict =>
        \A u \in Range(req.symptoms) :
            (Unrecognized(u) /\ Without(req.symptoms, u) # << >>)
                => predict_disease(Without(req.symptoms, u)).resp = resp

C2_Witness ==
    /\ IsPredict
    /\ resp.status = 200
    /\ \E u \in Range(req.symptoms), r \in Range(req.symptoms) :
          /\ Unrecognized(u)
          /\ ~Unrecognized(r)
          /\ Without(req.symptoms, u) # << >>

\* C3 as stated: every top_3_predictions of a successful response has
\* min(3, number of disease labels) entries, in strictly descending order of
\* confidence.
C3_StrictlyDescending ==
    \A r \in Predictions :
        LET t == r.top_3_predictions
        IN  /\ Len(t) = Min2(TopK, Len(Val(disease_labels)))
            /\ \A k \in 1..(Len(t) - 1) : t[k].confidence > t[k + 1].confidence

\* C3 amended: every top_3_predictions of a successful response has
\* min(3, number of disease labels) entries, in non-increasing order of
\* confidence (classes with equal scores have equal confidences).
C3_Descending ==
    \A r \in Predictions :
        LET t == r.top_3_predictions
        IN  /\ Len(t) = Min2(TopK, Len(Val(disease_labels)))
            /\ \A k \in 1..(Len(t) - 1) : t[k].confidence >= t[k + 1].confidence

\* four classes, the second and the third of the ranking tied
C3_Witness ==
    \E r \in Predictions :
          LET t == r.top_3_predictions
          IN  /\ Len(Val(disease_labels)) > TopK
              /\ Len(t) = TopK
              /\ t[1].confidence > t[2].confidence
              /\ t[2].confidence = t[3].confidence

\* the probabilities behind the prediction made for item i of the request
ProbabilitiesOf(i) ==
    LET c == CHOOSE c \in Classified : c.item = i
    IN  softmax(model_predict(Val(model), c.vector))

\* the predictions of a successful response, each with its probabilities
PredictionsWithProbabilities ==
    IF IsPredict /\ resp.status = 200 THEN { <<resp.body, ProbabilitiesOf(1)>> }
    ELSE IF IsBatch /\ resp.status = 200
        THEN { <<resp.body.predictions[i], ProbabilitiesOf(i)>> :
                    i \in 1..Len(resp.body.predictions) }
    ELSE { }

\* C4: in every prediction of a successful response, predicted_disease and
\* confidence are those of top_3_predictions[0], and that entry is a label
\* of maximum probability.
C4_TopIsFirstAndMaximal ==
    \A rp \in PredictionsWithProbabilities :
        LET r == rp[1]
            p == rp[2]
            labels == Val(disease_labels)
        IN  /\ r.predicted_disease = r.top_3_predictions[1].disease
            /\ r.confidence = r.top_3_predictions[1].confidence
            /\ \E j \in 1..Len(labels) :
                  /\ labels[j] = r.top_3_predictions[1].disease
                  /\ p[j] = r.top_3_predictions[1].confidence
            /\ \A j \in 1..Len(p) : p[j] <= r.top_3_predictions[1].confidence

C4_Witness ==
    \E rp \in PredictionsWithProbabilities :
        /\ Len(rp[2]) > TopK
        /\ \E j \in 1..Len(rp[2]) : rp[2][j] < rp[1].confidence
        /\ rp[1].predicted_disease # Val(disease_labels)[1]

\* the three fields /predict answers for one symptoms list equal those of r
SameAsPredict(symptoms, r) ==
    LET o == predict_disease(symptoms).resp
    IN  /\ o.status = 200
        /\ o.body.predicted_disease = r.predicted_disease
        /\ o.body.confidence = r.confidence
        /\ o.body.top_3_predictions = r.top_3_predictions

\* C5 as stated: a successful batch response holds one result per input list,
\* in input order, and each result is what /predict answers for that list,
\* whatever the list.
C5_BatchMatchesPredict ==
    (IsBatch /\ resp.status = 200) =>
        LET results == resp.body.predictions
        IN  /\ Len(results) = Len(req.symptoms_list)
            /\ \A i \in 1..Len(results) :
                  /\ results[i].symptoms = req.symptoms_list[i]
                  /\ SameAsPredict(req.symptoms_list[i], results[i])

\* C5 amended: a successful batch response holds one result per input list,
\* in input order, and each result for a non-empty list is what /predict
\* answers for that list (an empty list is answered by the batch, and
\* rejected with 400 by /predict).
C5_BatchMatchesPredictNonEmpty ==
    (IsBatch /\ resp.status = 200) =>
        LET results == resp.body.predictions
        IN  /\ Len(results) = Len(req.symptoms_list)
            /\ \A i \in 1..Len(results) :
                  /\ results[i].symptoms = req.symptoms_list[i]
                  /\ req.symptoms_list[i] # << >>
                        => SameAsPredict(req.symptoms_list[i], results[i])

C5_Witness ==
    /\ IsBatch
    /\ resp.status = 200
    /\ Len(req.symptoms_list) = 2
    /\ req.symptoms_list[1] # << >>
    /\ req.symptoms_list[2] # << >>
    /\ resp.body.predictions[1].predicted_disease
            # resp.body.predictions[2].predicted_disease

\* the files cannot be loaded: one is missing or unreadable, or the metadata
\* lacks one of its two lists
Defective(files) ==
    \/ files.model.state # "ok"
    \/ files.metadata.state # "ok"
    \/ files.metadata.symptom_columns.kind # "list"
    \/ files.metadata.disease_labels.kind # "list"

NotLoadedDetails ==
    { "Model not loaded", "Symptom data not loaded", "Disease data not loaded" }

\* C6: when a file is missing or the metadata lacks a list, startup raises
\* and the service never serves; whenever it serves (and so whenever a
\* handler has run) the model and both lists are loaded, and no response is
\* one of the "not loaded" errors.
C6_ServesOnlyWhenLoaded ==
    /\ (Defective(fs) /\ phase # "init") => phase = "failed"
    /\ phase \in {"serving", "stopped"} =>
          /\ ~IsNone(model)
          /\ ~IsNone(symptom_columns)
          /\ ~IsNone(disease_labels)
    /\ req # NoRequest =>
          /\ phase = "serving"
          /\ ~(resp.status = 500 /\ resp.body.detail \in NotLoadedDetails)

\* startup failed half-way: the model and the symptoms were already assigned
C6_Witness ==
    /\ phase = "failed"
    /\ fs.metadata.disease_labels.kind = "absent"
    /\ ~IsNone(model)
    /\ ~IsNone(symptom_columns)
    /\ IsNone(disease_labels)

\* what the lists loaded at startup say the response's totals must be
TotalsAsLoaded ==
    /\ req.endpoint = "/symptoms" =>
          /\ resp.status = 200
          /\ resp.body.total = Len(fs.metadata.symptom_columns.val)
    /\ req.endpoint = "/diseases" =>
          /\ resp.status = 200
          /\ resp.body.total = Len(fs.metadata.disease_labels.val)
    /\ req.endpoint = "/health" =>
          /\ resp.body.total_symptoms = Len(fs.metadata.symptom_columns.val)
          /\ resp.body.total_diseases = Len(fs.metadata.disease_labels.val)

\* C7: once the service serves, no step changes model, symptom_columns or
\* disease_labels, and every total reported by /symptoms, /diseases and
\* /health is the length of the list loaded at startup.
C7_GlobalsFrozen ==
    /\ [][phase = "serving" =>
            /\ model' = model
            /\ symptom_columns' = symptom_columns
            /\ disease_labels' = disease_labels]_vars
    /\ [](phase = "serving" =>
            /\ symptom_columns = Some(fs.metadata.symptom_columns.val)
            /\ disease_labels = Some(fs.metadata.disease_labels.val)
            /\ TotalsAsLoaded)

C7_Witness ==
    /\ req.endpoint = "/symptoms"
    /\ resp.status = 200
    /\ resp.body.total = 3
    /\ Len(Val(disease_labels)) = 4

\* the items of the batch on which the classifier raises
Failing ==
    { i \in 1..Len(req.symptoms_list) :
        model_raises(Val(model),
            preprocess_symptoms(req.symptoms_list[i], Val(symptom_columns))) }

FirstFailing == CHOOSE k \in Failing : \A i \in Failing : k <= i

\* C8: when inference raises on item k of a batch, the response is a single
\* 500 that carries no result, and no item after k is vectorized or given to
\* the classifier.
C8_BatchFailFast ==
    (IsBatch /\ ~IsNone(model) /\ Failing # { }) =>
        /\ resp.status = 500
        /\ resp.body = [detail |-> "Batch prediction error"]
        /\ \A c \in Range(calls) : c.item <= FirstFailing
        /\ { c.item : c \in Vectorized } = 1..FirstFailing
        /\ { c.item : c \in Classified } = 1..FirstFailing

\* the first item was predicted, the second raised
C8_Witness ==
    /\ IsBatch
    /\ Failing = {2}
    /\ resp.status = 500
    /\ Len(calls) = 4

\* C9: replacing an element of a symptoms list by a string that differs from
\* it only in letter case and surrounding whitespace leaves the vector of
\* preprocess_symptoms, and the response of /predict, unchanged.
C9_CaseAndSpaceInsensitive ==
    /\ \A c \in Vectorized :
          \A i \in 1..Len(c.symptoms) : \A t \in Variants(c.symptoms[i]) :
              preprocess_symptoms(Replace(c.symptoms, i, t), Val(symptom_columns))
                  = c.vector
    /\ IsPredict =>
          \A i \in 1..Len(req.symptoms) : \A t \in Variants(req.symptoms[i]) :
              predict_disease(Replace(req.symptoms, i, t)).resp = resp

\* a recognised symptom sent in capitals with a leading blank
C9_Witness ==
    \E c \in Vectorized :
        /\ c.symptoms = << <<" ", "A">> >>
        /\ \E i \in 1..Len(c.vector) : c.vector[i] = 1
        /\ resp.status = 200

\* C10: preprocess_symptoms returns one entry per schema column, each 0 or 1,
\* entry i being 1 exactly when the normalized column i equals the
\* normalized form of some input string; the order and the multiplicity of
\* the inputs do not matter.
C10_VectorIsMembership ==
    \A c \in Vectorized :
        LET columns == Val(symptom_columns)
        IN  /\ Len(c.vector) = Len(columns)
            /\ \A i \in 1..Len(columns) :
                  /\ c.vector[i] \in {0, 1}
                  /\ c.vector[i] = 1 <=>
                        \E k \in 1..Len(c.symptoms) :
                            strip(lower(c.symptoms[k])) = strip(lower(columns[i]))
            /\ preprocess_symptoms(reversed(c.symptoms), columns) = c.vector
            /\ preprocess_symptoms(c.symptoms \o c.symptoms, columns) = c.vector

\* the same symptom twice, in two spellings, matching two columns
C10_Witness ==
    \E c \in Vectorized :
        /\ c.symptoms = << <<"a">>, <<" ", "A">> >>
        /\ c.vector = <<1, 0, 1>>

=============================================================================
